---------------------------- MODULE Spec2Model ----------------------------
(***************************************************************************)
(* A model of the C+ -> C++98 converter (src/C+.cpp).                      *)
(*                                                                         *)
(* Text is a sequence of one-character strings.  Token texts are strings.  *)
(* C++ vectors are 0-based; the sequences here are 1-based, so the C++     *)
(* index i is position i+1 and "i < v.size()" reads "p <= Len(v)".  Scope  *)
(* ids keep the C++ numbering (0 is Global, parent -1): scope s is         *)
(* scopes[s+1].                                                            *)
(***************************************************************************)
EXTENDS Integers, Sequences, FiniteSets, TLC

(***************************************************************************)
(* Characters                                                              *)
(***************************************************************************)
Digits == {"0", "1", "2", "3", "4", "5", "6", "7", "8", "9"}

Alpha ==
  {"a", "b", "c", "d", "e", "f", "g", "h", "i", "j", "k", "l", "m",
   "n", "o", "p", "q", "r", "s", "t", "u", "v", "w", "x", "y", "z",
   "A", "B", "C", "D", "E", "F", "G", "H", "I", "J", "K", "L", "M",
   "N", "O", "P", "Q", "R", "S", "T", "U", "V", "W", "X", "Y", "Z"}

\* std::isspace in the "C" locale, less '\v' (TLA+ strings cannot write it)
isspace(c) == c \in {" ", "\t", "\n", "\r", "\f"}

isdigit(c) == c \in Digits

isIdentStart(c) == c \in Alpha \/ c = "_"

isIdentChar(c) == c \in Alpha \/ c \in Digits \/ c = "_"

is_op_char(c) ==
  c \in {"+", "-", "*", "/", "%", "=", "&", "|", "!", "<", ">", "^", "~",
         "?", ":"}

is_punct_char(c) == c \in {"(", ")", "{", "}", "[", "]", ";", ",", "."}

make_keywords ==
  {"auto", "break", "case", "char", "const", "continue", "default", "do",
   "double", "else", "enum", "extern", "float", "for", "goto", "if",
   "inline", "int", "long", "register", "return", "short", "signed",
   "sizeof", "static", "struct", "switch", "typedef", "union", "unsigned",
   "void", "volatile", "while", "bool"}

TwoCharOps ==
  {"++", "--", "==", "!=", ">=", "<=", "+=", "-=", "*=", "/=", "&&", "||",
   "&=", "|=", "^=", "<<", ">>"}

builtin_types ==
  {"void", "char", "short", "int", "long", "float", "double", "signed",
   "unsigned", "bool"}

\* std::string::substr(a-1, b-a+1) as a string
RECURSIVE Text(_, _, _)
Text(s, a, b) == IF a > b THEN "" ELSE s[a] \o Text(s, a + 1, b)

(***************************************************************************)
(* Line normalizer                                                         *)
(***************************************************************************)
\* the elements of s at the positions that satisfy Keep, in order
KeepAt(s, Keep(_)) ==
  LET K == {p \in 1..Len(s) : Keep(p)} IN
  [k \in 1..Cardinality(K) |->
     s[CHOOSE p \in K : Cardinality({q \in K : q <= p}) = k]]

\* first loop: a '\r' before '\n' is dropped, any other '\r' becomes '\n'
CrToLf(s) ==
  LET t == KeepAt(s, LAMBDA i : ~(s[i] = "\r" /\ i + 1 <= Len(s) /\ s[i + 1] = "\n"))
  IN [k \in 1..Len(t) |-> IF t[k] = "\r" THEN "\n" ELSE t[k]]

\* second loop: a backslash before '\n' is skipped together with the '\n'
\* (the loop never lands on the second character of such a pair as a
\* backslash, so every backslash is tested)
SpliceContinuations(t) ==
  LET spliced(i) == t[i] = "\\" /\ i + 1 <= Len(t) /\ t[i + 1] = "\n" IN
  KeepAt(t, LAMBDA i : ~spliced(i) /\ ~(i > 1 /\ spliced(i - 1)))

preprocess_physical_lines(s) == SpliceContinuations(CrToLf(s))

(***************************************************************************)
(* Lexer                                                                   *)
(***************************************************************************)
Tok(type, text, line, col) ==
  [type |-> type, text |-> text, line |-> line, col |-> col, scope_id |-> 0]

\* "while (j < n && P(j)) ++j" from j = i: the first position from i on, up
\* to n, at which P fails, and n + 1 when there is none
ScanWhile(i, n, P(_)) ==
  LET stop == {k \in i..n : ~P(k)} IN
  IF stop = {} THEN (IF i > n THEN i ELSE n + 1)
  ELSE CHOOSE m \in stop : \A k \in stop : m <= k

\* first position at or after i that holds '\n', or Len(src)+1
SkipToEol(src, i) == ScanWhile(i, Len(src), LAMBDA k : src[k] # "\n")

\* the scan of a block comment's body, from the position after "/*"
RECURSIVE BlockCommentEnd(_, _, _, _)
BlockCommentEnd(src, i, line, col) ==
  IF i + 1 <= Len(src)
  THEN IF src[i] = "\n" THEN BlockCommentEnd(src, i + 1, line + 1, 1)
       ELSE IF src[i] = "*" /\ src[i + 1] = "/"
            THEN [i |-> i + 2, line |-> line, col |-> col + 2]
            ELSE BlockCommentEnd(src, i + 1, line, col + 1)
  ELSE [i |-> i, line |-> line, col |-> col]

\* the scan of a string literal's body, from the position after the quote
RECURSIVE StringEnd(_, _, _, _)
StringEnd(src, i, line, col) ==
  IF i <= Len(src)
  THEN LET d == src[i] IN
       IF d = "\\"
       THEN IF i + 1 <= Len(src)
            THEN StringEnd(src, i + 2, line, col + 2)
            ELSE StringEnd(src, i + 1, line, col + 1)
       ELSE IF d = "\""
            THEN [i |-> i + 1, line |-> line, col |-> col + 1]
            ELSE IF d = "\n"
                 THEN StringEnd(src, i + 1, line + 1, 1)
                 ELSE StringEnd(src, i + 1, line, col + 1)
  ELSE [i |-> i, line |-> line, col |-> col]

RECURSIVE NumberEnd(_, _, _)
NumberEnd(src, i, dot) ==
  IF i <= Len(src)
  THEN IF isdigit(src[i]) THEN NumberEnd(src, i + 1, dot)
       ELSE IF src[i] = "." /\ ~dot THEN NumberEnd(src, i + 1, TRUE)
            ELSE i
  ELSE i

IdentEnd(src, i) == ScanWhile(i, Len(src), LAMBDA k : isIdentChar(src[k]))

\* what one iteration of lex's loop does at position i
LexSkip(i, line, col) == [i |-> i, line |-> line, col |-> col, emit |-> <<>>, arrow |-> FALSE]

LexEmit(i, line, col, t) == [i |-> i, line |-> line, col |-> col, emit |-> <<t>>, arrow |-> FALSE]

\* std::exit(2) at the "->" found at (line, col)
LexForbidden(i, line, col) == [i |-> i, line |-> line, col |-> col, emit |-> <<>>, arrow |-> TRUE]

\* One iteration of the loop of lex at position i <= Len(src): the position,
\* line and column after it, the token it pushes (if any), and whether it
\* is the forbidden "->".
LexIteration(src, i, line, col) ==
  LET c == src[i] IN
  IF c = "\n" THEN LexSkip(i + 1, line + 1, 1)
  ELSE IF isspace(c) THEN LexSkip(i + 1, line, col + 1)
  ELSE IF c = "#"
  THEN LET e == SkipToEol(src, i) IN
       LexEmit(e, line, col + (e - i), Tok("Preprocessor", Text(src, i, e - 1), line, col))
  ELSE IF c = "/" /\ i + 1 <= Len(src) /\ src[i + 1] = "/"
  THEN LET e == SkipToEol(src, i + 2) IN LexSkip(e, line, col + (e - i))
  ELSE IF c = "/" /\ i + 1 <= Len(src) /\ src[i + 1] = "*"
  THEN LET r == BlockCommentEnd(src, i + 2, line, col + 2) IN LexSkip(r.i, r.line, r.col)
  ELSE IF c = "\""
  THEN LET r == StringEnd(src, i + 1, line, col + 1) IN
       LexEmit(r.i, r.line, r.col, Tok("StringLit", Text(src, i, r.i - 1), r.line, col))
  ELSE IF isdigit(c)
  THEN LET e == NumberEnd(src, i, FALSE) IN
       LexEmit(e, line, col + (e - i), Tok("Number", Text(src, i, e - 1), line, col))
  ELSE IF isIdentStart(c)
  THEN LET e == IdentEnd(src, i + 1)
           w == Text(src, i, e - 1) IN
       LexEmit(e, line, col + (e - i),
               Tok(IF w \in make_keywords THEN "Keyword" ELSE "Identifier", w, line, col))
  ELSE IF is_op_char(c)
  THEN IF i + 1 <= Len(src) /\ Text(src, i, i + 1) = "->"
       THEN LexForbidden(i, line, col)
       ELSE IF i + 1 <= Len(src) /\ Text(src, i, i + 1) \in TwoCharOps
            THEN LexEmit(i + 2, line, col + 2, Tok("Operator", Text(src, i, i + 1), line, col))
            ELSE LexEmit(i + 1, line, col + 1, Tok("Operator", c, line, col))
  ELSE IF is_punct_char(c)
  THEN LexEmit(i + 1, line, col + 1, Tok("Punct", c, line, col))
  ELSE LexEmit(i + 1, line, col + 1, Tok("Unknown", c, line, col))

(***************************************************************************)
(* Token helpers                                                           *)
(***************************************************************************)
TKIs(v, i, t, txt) ==
  /\ i >= 1
  /\ i <= Len(v)
  /\ v[i].type = t
  /\ v[i].text = txt

is_kw(v, i, k) == TKIs(v, i, "Keyword", k)

is_p(v, i, p) == TKIs(v, i, "Punct", p)

is_op(v, i, o) == TKIs(v, i, "Operator", o)

IsTagKw(v, i) == is_kw(v, i, "struct") \/ is_kw(v, i, "enum") \/ is_kw(v, i, "union")


IsType(v, i, t) == i >= 1 /\ i <= Len(v) /\ v[i].type = t

(***************************************************************************)
(* Function signatures and parameters                                      *)
(***************************************************************************)
SkipSigPrefix(tk, i) ==
  ScanWhile(i, Len(tk),
            LAMBDA k : tk[k].type = "Keyword" \/ is_op(tk, k, "*") \/ is_op(tk, k, "&"))

\* the for loop over the parameter list: j after the loop and i_rp (-1: unset)
RECURSIVE ParenScan(_, _, _)
ParenScan(tk, j, depth) ==
  IF j > Len(tk) THEN [j |-> j, rp |-> -1]
  ELSE IF is_p(tk, j, "(") THEN ParenScan(tk, j + 1, depth + 1)
  ELSE IF is_p(tk, j, ")")
       THEN IF depth - 1 = 0 THEN [j |-> j + 1, rp |-> j]
            ELSE ParenScan(tk, j + 1, depth - 1)
       ELSE ParenScan(tk, j + 1, depth)

SkipSigSuffix(tk, j) ==
  ScanWhile(j, Len(tk),
            LAMBDA k : \/ tk[k].type = "Keyword" \/ tk[k].type = "Identifier"
                       \/ is_op(tk, k, "*") \/ is_op(tk, k, "&"))

NoSignature == [ok |-> FALSE, i_name |-> -1, i_lbrace |-> -1, i_lp |-> -1, i_rp |-> -1]

looks_like_func_signature(tk, i_type) ==
  LET i == SkipSigPrefix(tk, i_type + 1) IN
  IF i > Len(tk) \/ tk[i].type # "Identifier" THEN NoSignature
  ELSE IF i + 1 <= Len(tk) /\ is_p(tk, i + 1, "(")
       THEN LET r == ParenScan(tk, i + 1, 0) IN
            IF r.j <= Len(tk)
            THEN LET j == SkipSigSuffix(tk, r.j) IN
                 [ok |-> TRUE, i_name |-> i,
                  i_lbrace |-> IF j <= Len(tk) /\ is_p(tk, j, "{") THEN j ELSE -1,
                  i_lp |-> i + 1, i_rp |-> r.rp]
            ELSE NoSignature
       ELSE NoSignature

\* "type_start" of analyze_scopes_and_vars and of parse_params
TypeStart(tk, i, known_types) ==
  \/ tk[i].type = "Identifier" /\ tk[i].text \in known_types
  \/ tk[i].type = "Keyword"
     /\ (tk[i].text \in builtin_types \/ tk[i].text \in {"struct", "enum", "union"})

SkipWordsBelow(tk, j, rp) ==
  ScanWhile(j, rp - 1, LAMBDA k : tk[k].type = "Keyword" \/ tk[k].type = "Identifier")

CountStarsBelow(tk, j, rp) == ScanWhile(j, rp - 1, LAMBDA k : is_op(tk, k, "*")) - j

RECURSIVE SkipParamBrackets(_, _, _)
SkipParamBrackets(tk, j, rp) ==
  IF j < rp /\ is_p(tk, j, "[")
     THEN LET k == ScanWhile(j, rp - 1, LAMBDA m : ~is_p(tk, m, "]")) IN
          SkipParamBrackets(tk, IF k < rp THEN k + 1 ELSE k, rp)
     ELSE j

SkipToComma(tk, j, rp) == ScanWhile(j, rp - 1, LAMBDA k : ~is_p(tk, k, ","))

RECURSIVE ParamsFrom(_, _, _, _, _)
ParamsFrom(tk, i, rp, out, known_types) ==
  IF ~(i < rp) THEN out
  ELSE IF is_p(tk, i, ",") THEN ParamsFrom(tk, i + 1, rp, out, known_types)
  ELSE IF ~TypeStart(tk, i, known_types)
       THEN ParamsFrom(tk, i + 1, rp, out, known_types)
  ELSE IF IsTagKw(tk, i) /\ ~(i + 1 < rp /\ tk[i + 1].type = "Identifier")
       THEN ParamsFrom(tk, i + 1, rp, out, known_types)
  ELSE
  LET j0 == IF IsTagKw(tk, i) THEN i + 2 ELSE SkipWordsBelow(tk, i, rp)
      stars == CountStarsBelow(tk, j0, rp)
      j == j0 + stars
  IN IF ~(j < rp /\ tk[j].type = "Identifier")
     THEN ParamsFrom(tk, j, rp, out, known_types)
     ELSE ParamsFrom(tk, SkipToComma(tk, SkipParamBrackets(tk, j + 1, rp), rp), rp,
                     Append(out, [name |-> tk[j].text, stars |-> stars]),
                     known_types)

parse_params(tk, lp, rp, known_types) == ParamsFrom(tk, lp + 1, rp, <<>>, known_types)

(***************************************************************************)
(* Relaxed declaration detection                                           *)
(***************************************************************************)
SkipWords(tk, j) ==
  ScanWhile(j, Len(tk), LAMBDA k : tk[k].type = "Keyword" \/ tk[k].type = "Identifier")

CountStars(tk, j) == ScanWhile(j, Len(tk), LAMBDA k : is_op(tk, k, "*")) - j

\* the array suffixes of the relaxed detector: an unclosed '[' stops the loop
RECURSIVE RelaxedArrays(_, _, _)
RelaxedArrays(tk, j, arrays) ==
  IF j <= Len(tk) /\ is_p(tk, j, "[")
     THEN LET k == ScanWhile(j + 1, Len(tk), LAMBDA m : ~is_p(tk, m, "]")) IN
          IF k = Len(tk) + 1 THEN [j |-> j, arrays |-> arrays]
          ELSE RelaxedArrays(tk, k + 1, arrays + 1)
     ELSE [j |-> j, arrays |-> arrays]

NoDecl == [ok |-> FALSE, j |-> 0, name |-> "", stars |-> 0, arrays |-> 0]

detect_relaxed_declaration(tk, i) ==
  IF ~(tk[i].type = "Identifier" \/ IsTagKw(tk, i)) THEN NoDecl
  ELSE IF tk[i].type = "Keyword" /\ ~(i + 1 <= Len(tk) /\ tk[i + 1].type = "Identifier")
       THEN NoDecl
  ELSE
  LET j0 == SkipWords(tk, IF tk[i].type = "Keyword" THEN i + 2 ELSE i + 1)
      stars == CountStars(tk, j0)
      j1 == j0 + stars
  IN IF ~(j1 <= Len(tk) /\ tk[j1].type = "Identifier") THEN NoDecl
     ELSE LET a == RelaxedArrays(tk, j1 + 1, 0)
              j == a.j
          IN IF j <= Len(tk)
                /\ (is_p(tk, j, ";") \/ is_p(tk, j, ",") \/ is_p(tk, j, "[")
                    \/ is_op(tk, j, "=") \/ is_p(tk, j, "{"))
             THEN [ok |-> TRUE, j |-> j, name |-> tk[j1].text, stars |-> stars,
                   arrays |-> a.arrays]
             ELSE NoDecl

(***************************************************************************)
(* Scope and declaration analysis                                          *)
(***************************************************************************)
UnknownPtr == 999

NoParent == -1

GlobalScope == [id |-> 0, parent |-> NoParent, kind |-> "Global", name |-> ""]

EmptyVars == [n \in {} |-> [pointer_level |-> UnknownPtr, array_rank |-> 0]]

\* VarInfo& vi = vars[name], then the min / max update of the declarator
UpdateVar(vars, name, stars, arrays) ==
  LET vi == IF name \in DOMAIN vars THEN vars[name]
            ELSE [pointer_level |-> UnknownPtr, array_rank |-> 0]
      pl == IF vi.pointer_level = UnknownPtr THEN stars
            ELSE IF stars < vi.pointer_level THEN stars ELSE vi.pointer_level
      ar == IF arrays > vi.array_rank THEN arrays ELSE vi.array_rank
  IN [n \in DOMAIN vars \cup {name} |->
        IF n = name THEN [pointer_level |-> pl, array_rank |-> ar] ELSE vars[n]]

\* the typedef scan: the last Identifier before the next ';' or '}' (-1: none)
TypedefLastIdent(tk, j) ==
  LET e == ScanWhile(j, Len(tk), LAMBDA k : ~(is_p(tk, k, ";") \/ is_p(tk, k, "}")))
      ids == {k \in j..(e - 1) : tk[k].type = "Identifier"}
  IN IF ids = {} THEN -1 ELSE CHOOSE m \in ids : \A k \in ids : k <= m

ObserveTypedef(tk, i, known_types) ==
  IF is_kw(tk, i, "typedef")
  THEN LET last == TypedefLastIdent(tk, i + 1) IN
       IF last # -1 THEN known_types \cup {tk[last].text} ELSE known_types
  ELSE known_types

ObserveTag(tk, i, known_types) ==
  IF IsTagKw(tk, i) /\ i + 1 <= Len(tk) /\ tk[i + 1].type = "Identifier"
  THEN known_types \cup {tk[i + 1].text}
  ELSE known_types

PendingKindOfTag(tk, i) ==
  IF is_kw(tk, i, "struct") THEN "Struct"
  ELSE IF is_kw(tk, i, "enum") THEN "Enum" ELSE "Union"

\* the array suffixes of the strict declarator loop: an unclosed '[' counts
RECURSIVE StrictArrays(_, _, _)
StrictArrays(tk, j, arrays) ==
  IF j <= Len(tk) /\ is_p(tk, j, "[")
     THEN LET k == ScanWhile(j, Len(tk), LAMBDA m : ~is_p(tk, m, "]")) IN
          StrictArrays(tk, IF k <= Len(tk) THEN k + 1 ELSE k, arrays + 1)
     ELSE [j |-> j, arrays |-> arrays]

\* the comma-separated declarator list of the strict path, from position j
RECURSIVE StrictDeclarators(_, _, _)
StrictDeclarators(tk, j, vars) ==
  IF ~(j <= Len(tk)) THEN [vars |-> vars, handled |-> FALSE]
  ELSE
  LET stars == CountStars(tk, j)
      jn == j + stars
  IN IF ~(jn <= Len(tk) /\ tk[jn].type = "Identifier")
     THEN [vars |-> vars, handled |-> FALSE]
     ELSE LET a == StrictArrays(tk, jn + 1, 0)
              v2 == UpdateVar(vars, tk[jn].text, stars, a.arrays)
          IN IF a.j <= Len(tk) /\ is_p(tk, a.j, ",")
             THEN [vars |-> StrictDeclarators(tk, a.j + 1, v2).vars, handled |-> TRUE]
             ELSE [vars |-> v2, handled |-> TRUE]

\* where the strict path starts reading declarators
StrictStart(tk, i) ==
  IF IsTagKw(tk, i)
  THEN IF i + 1 <= Len(tk) /\ tk[i + 1].type = "Identifier" THEN i + 2 ELSE i
  ELSE SkipWords(tk, i)

RECURSIVE InsertParams(_, _, _)
InsertParams(vars, ps, k) ==
  IF k > Len(ps) THEN vars
  ELSE InsertParams(UpdateVar(vars, ps[k].name, ps[k].stars, 0), ps, k + 1)

\* tokens[i].scope_id = cur
SetScopeId(st, i) == [st EXCEPT !.tk[i].scope_id = st.cur]

\* typedef names and tag names; a tag keyword sets the pending scope
ObserveTypes(st, i) ==
  [st EXCEPT
     !.known_types = ObserveTag(st.tk, i, ObserveTypedef(st.tk, i, st.known_types)),
     !.pending_kind = IF IsTagKw(st.tk, i) THEN PendingKindOfTag(st.tk, i) ELSE @,
     !.pending_name =
        IF IsTagKw(st.tk, i)
        THEN IF i + 1 <= Len(st.tk) /\ st.tk[i + 1].type = "Identifier"
             THEN st.tk[i + 1].text ELSE ""
        ELSE @]

\* a signature with a body: the pending scope is the function's, and its
\* parameters wait at the '{'
RecordFunction(st, sig) ==
  IF sig.ok /\ sig.i_lbrace # -1
  THEN [st EXCEPT
          !.sig_ok = TRUE,
          !.pending_kind = "Function",
          !.pending_name = st.tk[sig.i_name].text,
          !.params = [b \in DOMAIN st.params \cup {sig.i_lbrace} |->
                        IF b = sig.i_lbrace
                        THEN parse_params(st.tk, sig.i_lp, sig.i_rp, st.known_types)
                        ELSE st.params[b]]]
  ELSE [st EXCEPT !.sig_ok = sig.ok]

DetectFunction(st, i) ==
  IF TypeStart(st.tk, i, st.known_types)
  THEN RecordFunction([st EXCEPT !.type_start = TRUE],
                      looks_like_func_signature(st.tk, i))
  ELSE [st EXCEPT !.type_start = FALSE, !.sig_ok = FALSE]

RecordStrict(st, r) ==
  [st EXCEPT !.scope_vars[st.cur + 1] = r.vars, !.handled = r.handled]

\* the declaration path that starts at a type
StrictDecl(st, i) ==
  IF st.type_start /\ ~st.sig_ok
  THEN RecordStrict(st, StrictDeclarators(st.tk, StrictStart(st.tk, i),
                                          st.scope_vars[st.cur + 1]))
  ELSE [st EXCEPT !.handled = FALSE]

RecordRelaxed(st, rel) ==
  IF rel.ok
  THEN [st EXCEPT !.scope_vars[st.cur + 1] =
                     UpdateVar(@, rel.name, rel.stars, rel.arrays)]
  ELSE st

\* the declaration path that starts at any identifier
RelaxedDecl(st, i) ==
  IF ~st.handled /\ st.tk[i].type = "Identifier"
  THEN RecordRelaxed(st, detect_relaxed_declaration(st.tk, i))
  ELSE st

\* '{': a new scope of the pending kind, holding the waiting parameters
OpenScope(st, i) ==
  IF is_p(st.tk, i, "{")
  THEN [st EXCEPT
          !.scopes = Append(@, [id |-> Len(st.scopes), parent |-> st.cur,
                                kind |-> IF st.pending_kind = "" THEN "Block"
                                         ELSE st.pending_kind,
                                name |-> st.pending_name]),
          !.scope_vars = Append(@, IF i \in DOMAIN st.params
                                   THEN InsertParams(EmptyVars, st.params[i], 1)
                                   ELSE EmptyVars),
          !.cur = Len(st.scopes),
          !.pending_kind = "",
          !.pending_name = ""]
  ELSE st

\* a variant of the scope close that goes to the parent at the global scope
\* too
CloseScope_NoRootGuard(st, i) ==
  IF is_p(st.tk, i, "}")
  THEN [st EXCEPT
          !.cur = st.scopes[st.cur + 1].parent,
          !.pending_kind = "",
          !.pending_name = ""]
  ELSE st

\* '}': back to the parent, except at the global scope
CloseScope(st, i) ==
  IF is_p(st.tk, i, "}")
  THEN [st EXCEPT
          !.cur = IF st.cur # 0 THEN st.scopes[st.cur + 1].parent ELSE @,
          !.pending_kind = "",
          !.pending_name = ""]
  ELSE st

\* one iteration of the token loop of analyze_scopes_and_vars
AnalyzeToken(st, i) ==
  CloseScope(
    OpenScope(
      RelaxedDecl(
        StrictDecl(
          DetectFunction(ObserveTypes(SetScopeId(st, i), i), i), i), i), i), i)

\* a variant of resolve_ptr_level that looks the name up in every scope of
\* the file instead of the chain of enclosing scopes
resolve_ptr_level_AnyScope(scopes, scope_vars, scope_id, name) ==
  LET holders == {s \in 1..Len(scope_vars) : name \in DOMAIN scope_vars[s]} IN
  IF holders = {} THEN [ptr |-> UnknownPtr, array_rank |-> 0]
  ELSE LET s == CHOOSE h \in holders : \A g \in holders : h <= g IN
       [ptr |-> scope_vars[s][name].pointer_level,
        array_rank |-> scope_vars[s][name].array_rank]

\* the walk from scope_id up the parents to the first scope that declares name
resolve_ptr_level(scopes, scope_vars, scope_id, name) ==
  LET RECURSIVE Walk(_)
      Walk(cur) ==
        IF cur = NoParent THEN [ptr |-> UnknownPtr, array_rank |-> 0]
        ELSE IF name \in DOMAIN scope_vars[cur + 1]
             THEN [ptr |-> scope_vars[cur + 1][name].pointer_level,
                   array_rank |-> scope_vars[cur + 1][name].array_rank]
             ELSE Walk(scopes[cur + 1].parent)
  IN Walk(scope_id)

(***************************************************************************)
(* Token-stream passes                                                     *)
(***************************************************************************)
ScopeKindOf(scopes, sid) ==
  IF sid >= 0 /\ sid < Len(scopes) THEN scopes[sid + 1].kind ELSE "none"

remove_semicolons_inside_enums(toks, scopes) ==
  SelectSeq(toks, LAMBDA t : ~(/\ t.type = "Punct" /\ t.text = ";"
                               /\ ScopeKindOf(scopes, t.scope_id) = "Enum"))

InsertAt(s, pos, t) == SubSeq(s, 1, pos - 1) \o <<t>> \o SubSeq(s, pos, Len(s))

SkipPreprocessor(toks, j) ==
  ScanWhile(j, Len(toks), LAMBDA k : toks[k].type = "Preprocessor")

\* the lookahead of add_semicolon_after_type_blocks after the '}' at i
declarator_follows(toks, i) ==
  LET j == SkipPreprocessor(toks, i + 1) IN
  /\ j <= Len(toks)
  /\ \/ toks[j].type = "Identifier"
     \/ is_op(toks, j, "*")
     \/ is_p(toks, j, "(") \/ is_p(toks, j, "[") \/ is_p(toks, j, ";")

\* the loop from position i0 on; tokens that are not '}' are passed over
RECURSIVE AddTypeSemisFrom(_, _, _)
AddTypeSemisFrom(toks, i0, scopes) ==
  LET i == ScanWhile(i0, Len(toks), LAMBDA k : ~is_p(toks, k, "}")) IN
  IF i > Len(toks) THEN toks
  ELSE IF ScopeKindOf(scopes, toks[i].scope_id) \notin {"Struct", "Union", "Enum"}
       THEN AddTypeSemisFrom(toks, i + 1, scopes)
  ELSE IF declarator_follows(toks, i) THEN AddTypeSemisFrom(toks, i + 1, scopes)
  ELSE AddTypeSemisFrom(
         InsertAt(toks, i + 1, [toks[i] EXCEPT !.type = "Punct", !.text = ";"]),
         i + 2, scopes)

add_semicolon_after_type_blocks(toks, scopes) == AddTypeSemisFrom(toks, 1, scopes)

\* split_into_lines: a new line starts at the first token and wherever a
\* token's line differs from "current", which is the line of the token
\* before it
split_into_lines(toks) ==
  LET starts == {i \in 1..Len(toks) : i = 1 \/ toks[i].line # toks[i - 1].line}
      n == Cardinality(starts)
      start(k) == IF k > n THEN Len(toks) + 1
                  ELSE CHOOSE p \in starts : Cardinality({q \in starts : q <= p}) = k
  IN [byline |-> [k \in 1..n |-> SubSeq(toks, start(k), start(k + 1) - 1)],
      line_scope |-> [k \in 1..n |-> toks[start(k)].scope_id]]

(***************************************************************************)
(* Member-chain rewriter                                                   *)
(***************************************************************************)
\* position of the bracket matching the opener at j, or Len(line)+1
RECURSIVE MatchClose(_, _, _, _, _)
MatchClose(line, k, depth, opener, closer) ==
  IF k > Len(line) THEN k
  ELSE IF is_p(line, k, opener) THEN MatchClose(line, k + 1, depth + 1, opener, closer)
  ELSE IF is_p(line, k, closer)
       THEN IF depth - 1 = 0 THEN k
            ELSE MatchClose(line, k + 1, depth - 1, opener, closer)
       ELSE MatchClose(line, k + 1, depth, opener, closer)

\* a variant of Subscript that spends the pointer level before the rank
Subscript_PointerFirst(cur_ptr, cur_arr) ==
  IF cur_ptr > 0 THEN [cur_ptr |-> cur_ptr - 1, cur_arr |-> cur_arr]
  ELSE IF cur_arr > 0 THEN [cur_ptr |-> cur_ptr, cur_arr |-> cur_arr - 1]
       ELSE [cur_ptr |-> cur_ptr, cur_arr |-> cur_arr]

\* one matched subscript: array rank first, then pointer level
Subscript(cur_ptr, cur_arr) ==
  IF cur_arr > 0 THEN [cur_ptr |-> cur_ptr, cur_arr |-> cur_arr - 1]
  ELSE IF cur_ptr > 0 THEN [cur_ptr |-> cur_ptr - 1, cur_arr |-> cur_arr]
       ELSE [cur_ptr |-> cur_ptr, cur_arr |-> cur_arr]

RECURSIVE PostfixWalk(_, _, _, _)
PostfixWalk(line, j, cur_ptr, cur_arr) ==
  IF j <= Len(line) /\ is_p(line, j, "[")
  THEN LET k == MatchClose(line, j, 0, "[", "]") IN
       IF k <= Len(line)
       THEN LET s == Subscript(cur_ptr, cur_arr) IN
            PostfixWalk(line, k + 1, s.cur_ptr, s.cur_arr)
       ELSE [j |-> j, cur_ptr |-> cur_ptr, cur_arr |-> cur_arr]
  ELSE IF j <= Len(line) /\ is_p(line, j, "(")
  THEN LET k == MatchClose(line, j, 0, "(", ")") IN
       IF k <= Len(line)
       THEN PostfixWalk(line, k + 1, cur_ptr, cur_arr)
       ELSE [j |-> j, cur_ptr |-> cur_ptr, cur_arr |-> cur_arr]
  ELSE [j |-> j, cur_ptr |-> cur_ptr, cur_arr |-> cur_arr]

\* '(' and '*' before the base at i, ')' before the dot, the dot made "->"
WrapDeref(line, i, j) ==
  LET lpar == [line[i] EXCEPT !.type = "Punct", !.text = "("]
      star == [line[i] EXCEPT !.type = "Operator", !.text = "*"]
      rpar == [line[j] EXCEPT !.type = "Punct", !.text = ")"]
      l1 == InsertAt(InsertAt(line, i, lpar), i + 1, star)
      l2 == InsertAt(l1, j + 2, rpar)
  IN [l2 EXCEPT ![j + 3].type = "Operator", ![j + 3].text = "->"]

\* the ". <ident>" loop for the base at i: the line and j after the loop
RECURSIVE RewriteDots(_, _, _, _)
RewriteDots(line, i, j, cur_ptr) ==
  IF j + 1 <= Len(line) /\ is_p(line, j, ".") /\ line[j + 1].type = "Identifier"
  THEN IF cur_ptr = 1
       THEN RewriteDots([line EXCEPT ![j].type = "Operator", ![j].text = "->"],
                        i, j + 2, cur_ptr)
       ELSE IF cur_ptr > 1
            THEN RewriteDots(WrapDeref(line, i, j), i, j + 5, cur_ptr - 1)
            ELSE RewriteDots(line, i, j + 2, cur_ptr)
  ELSE [line |-> line, j |-> j]

\* "unknown symbol; skip"
UnknownSymbol(r) == r.ptr = UnknownPtr /\ r.array_rank = 0

\* the loop from position i0 on; tokens that are not Identifiers are passed over
RECURSIVE RewriteFrom(_, _, _, _, _)
RewriteFrom(line, i0, scope_id, scopes, scope_vars) ==
  LET i == ScanWhile(i0, Len(line), LAMBDA k : line[k].type # "Identifier") IN
  IF i > Len(line) THEN line
  ELSE
  LET r == resolve_ptr_level(scopes, scope_vars, scope_id, line[i].text) IN
  IF UnknownSymbol(r) THEN RewriteFrom(line, i + 1, scope_id, scopes, scope_vars)
  ELSE LET pf == PostfixWalk(line, i + 1, IF r.ptr = UnknownPtr THEN 0 ELSE r.ptr,
                             r.array_rank)
           d == RewriteDots(line, i, pf.j, pf.cur_ptr)
       IN RewriteFrom(d.line, d.j, scope_id, scopes, scope_vars)

rewrite_member_chains(line, scope_id, scopes, scope_vars) ==
  RewriteFrom(line, 1, scope_id, scopes, scope_vars)

(***************************************************************************)
(* Semicolon insertion                                                     *)
(***************************************************************************)
\* "need" of insert_semicolon_before_closing_brace_on_line
ValueClosing(prev) ==
  \/ prev.type \in {"Identifier", "Number", "StringLit"}
  \/ prev.type = "Punct" /\ prev.text \in {")", "]"}
  \/ prev.type = "Operator"

\* the loop from position i0 on; tokens that are not '}' are passed over
RECURSIVE InsertBeforeBraceFrom(_, _)
InsertBeforeBraceFrom(line, i0) ==
  LET i == ScanWhile(i0, Len(line), LAMBDA k : ~is_p(line, k, "}")) IN
  IF i > Len(line) THEN line
  ELSE IF ~(line[i - 1].type = "Punct" /\ line[i - 1].text \in {";", "{"})
          /\ ValueClosing(line[i - 1])
       THEN InsertBeforeBraceFrom(
              InsertAt(line, i, [line[i - 1] EXCEPT !.type = "Punct", !.text = ";"]),
              i + 2)
       ELSE InsertBeforeBraceFrom(line, i + 1)

insert_semicolon_before_closing_brace_on_line(line, scope_kind) ==
  IF scope_kind = "Enum" THEN line ELSE InsertBeforeBraceFrom(line, 2)

\* needs_semicolon without the initializer-list case: a line that ends in
\* '}' never needs a ';'
needs_semicolon_NoInitializer(line, scope_kind) ==
  IF line = <<>> THEN FALSE
  ELSE IF scope_kind = "Enum" THEN FALSE
  ELSE
  LET first == line[1]
      last == line[Len(line)]
  IN IF first.type = "Preprocessor" THEN FALSE
     ELSE IF last.type = "Punct" /\ last.text \in {"{", "}", ";"} THEN FALSE
     ELSE IF /\ \E i \in 1..Len(line) :
                  line[i].type = "Keyword"
                  /\ line[i].text \in {"if", "for", "while", "switch"}
             /\ last.type = "Punct" /\ last.text = ")"
          THEN FALSE
     ELSE \/ last.type \in {"Identifier", "Number", "StringLit"}
          \/ last.type = "Punct" /\ last.text \in {")", "]"}

needs_semicolon(line, scope_kind) ==
  IF line = <<>> THEN FALSE
  ELSE IF scope_kind = "Enum" THEN FALSE
  ELSE
  LET first == line[1]
      last == line[Len(line)]
  IN IF first.type = "Preprocessor" THEN FALSE
     ELSE IF last.type = "Punct" /\ last.text = "}"
          THEN /\ \E i \in 1..(Len(line) - 1) : is_op(line, i, "=")
               /\ \E i \in 1..(Len(line) - 1) : is_p(line, i, "{")
     ELSE IF last.type = "Punct" /\ last.text \in {"{", ";"} THEN FALSE
     ELSE IF /\ \E i \in 1..Len(line) :
                  line[i].type = "Keyword"
                  /\ line[i].text \in {"if", "for", "while", "switch"}
             /\ last.type = "Punct" /\ last.text = ")"
          THEN FALSE
     ELSE \/ last.type \in {"Identifier", "Number", "StringLit"}
          \/ last.type = "Punct" /\ last.text \in {")", "]"}

\* the ';' main appends
LineSemi(line) ==
  [type |-> "Punct", text |-> ";", line |-> line[Len(line)].line,
   col |-> line[Len(line)].col + 1, scope_id |-> 0]

(***************************************************************************)
(* Emitter                                                                 *)
(***************************************************************************)
RECURSIVE EmitFrom(_, _, _)
EmitFrom(line, i, bol) ==
  IF i > Len(line) THEN "\n"
  ELSE LET t == line[i] IN
       IF t.type = "Preprocessor"
       THEN (IF bol THEN "" ELSE "\n") \o t.text \o "\n"
       ELSE LET space == ~bol /\ ~(t.type = "Punct" /\ t.text \in {",", ")", "]", ";"})
            IN (IF space THEN " " ELSE "") \o t.text \o EmitFrom(line, i + 1, FALSE)

emit_line(line) == EmitFrom(line, 1, TRUE)

(***************************************************************************)
(* main: the state                                                         *)
(***************************************************************************)
VARIABLES
  argv,         \* the input files, in argument order (argv[1..argc-1])
  pc,           \* where main is
  ai,           \* the loop index of main
  exit_code,
  known_types,
  src,          \* "pre": the normalized text of the current file
  lx,           \* lex's loop: position i, line, col
  toks,
  an,           \* analyze_scopes_and_vars' loop: i, cur, pending_kind,
                \* pending_name, params_at_lbrace
  scopes,
  scope_vars,
  lines,
  line_scope,
  li,
  outcpp,
  reads,        \* the arguments read_file has been called on, in order
  outfiles,     \* argument index -> the text written to its sibling .cpp
  rc            \* the process's exit status (Running until it ends)

vars == <<argv, pc, ai, exit_code, known_types, src, lx, toks, an, scopes,
          scope_vars, lines, line_scope, li, outcpp, reads, outfiles, rc>>

Running == -1

perFile == <<src, lx, toks, an, scopes, scope_vars, lines, line_scope, li, outcpp>>

LexStart == [i |-> 1, line |-> 1, col |-> 1]

AnalyzeStart ==
  [i |-> 1, cur |-> 0, pending_kind |-> "", pending_name |-> "",
   params |-> [b \in {} |-> <<>>]]

\* the loop body's locals as they are when an iteration of main begins
FreshLocals ==
  /\ src' = <<>>
  /\ lx' = LexStart
  /\ toks' = <<>>
  /\ an' = AnalyzeStart
  /\ scopes' = <<>>
  /\ scope_vars' = <<>>
  /\ lines' = <<>>
  /\ line_scope' = <<>>
  /\ li' = 1
  /\ outcpp' = ""

InitWith(files) ==
  /\ argv \in files
  /\ pc = "main"
  /\ ai = 1
  /\ exit_code = 0
  /\ known_types = builtin_types
  /\ src = <<>>
  /\ lx = LexStart
  /\ toks = <<>>
  /\ an = AnalyzeStart
  /\ scopes = <<>>
  /\ scope_vars = <<>>
  /\ lines = <<>>
  /\ line_scope = <<>>
  /\ li = 1
  /\ outcpp = ""
  /\ reads = <<>>
  /\ outfiles = [k \in {} |-> ""]
  /\ rc = Running

(***************************************************************************)
(* main: the steps                                                         *)
(***************************************************************************)
\* argc < 2
Usage ==
  /\ pc = "main"
  /\ Len(argv) = 0
  /\ rc' = 1
  /\ pc' = "exit"
  /\ UNCHANGED <<argv, ai, exit_code, known_types, perFile, reads, outfiles>>

EnterLoop ==
  /\ pc = "main"
  /\ Len(argv) >= 1
  /\ known_types' = builtin_types
  /\ exit_code' = 0
  /\ ai' = 1
  /\ pc' = "read"
  /\ UNCHANGED <<argv, perFile, reads, outfiles, rc>>

\* a variant of ReadFail that leaves the loop ("break") at the failed read
ReadFail_Break ==
  /\ pc = "read"
  /\ ai <= Len(argv)
  /\ ~argv[ai].readable
  /\ reads' = Append(reads, ai)
  /\ exit_code' = 1
  /\ ai' = Len(argv) + 1
  /\ UNCHANGED <<argv, pc, known_types, perFile, outfiles, rc>>

\* read_file fails: exit_code = 1; continue
ReadFail ==
  /\ pc = "read"
  /\ ai <= Len(argv)
  /\ ~argv[ai].readable
  /\ reads' = Append(reads, ai)
  /\ exit_code' = 1
  /\ ai' = ai + 1
  /\ UNCHANGED <<argv, pc, known_types, perFile, outfiles, rc>>

\* a variant of ReadOk in which the known-type set is a local of the loop body
ReadOk_LocalTypes ==
  /\ pc = "read"
  /\ ai <= Len(argv)
  /\ argv[ai].readable
  /\ reads' = Append(reads, ai)
  /\ src' = preprocess_physical_lines(argv[ai].bytes)
  /\ known_types' = builtin_types
  /\ pc' = "lex"
  /\ UNCHANGED <<argv, ai, exit_code, lx, toks, an, scopes, scope_vars, lines,
                 line_scope, li, outcpp, outfiles, rc>>

\* read_file and preprocess_physical_lines
ReadOk ==
  /\ pc = "read"
  /\ ai <= Len(argv)
  /\ argv[ai].readable
  /\ reads' = Append(reads, ai)
  /\ src' = preprocess_physical_lines(argv[ai].bytes)
  /\ pc' = "lex"
  /\ UNCHANGED <<argv, ai, exit_code, known_types, lx, toks, an, scopes,
                 scope_vars, lines, line_scope, li, outcpp, outfiles, rc>>

\* one iteration of the loop of lex
LexStep ==
  /\ pc = "lex"
  /\ lx.i <= Len(src)
  /\ LET r == LexIteration(src, lx.i, lx.line, lx.col) IN
       /\ ~r.arrow
       /\ lx' = [i |-> r.i, line |-> r.line, col |-> r.col]
       /\ toks' = toks \o r.emit
  /\ UNCHANGED <<argv, pc, ai, exit_code, known_types, src, an, scopes,
                 scope_vars, lines, line_scope, li, outcpp, reads, outfiles, rc>>

\* std::exit(2) inside lex
LexArrow ==
  /\ pc = "lex"
  /\ lx.i <= Len(src)
  /\ LexIteration(src, lx.i, lx.line, lx.col).arrow
  /\ rc' = 2
  /\ pc' = "exit"
  /\ UNCHANGED <<argv, ai, exit_code, known_types, perFile, reads, outfiles>>

\* lex returns; analyze_scopes_and_vars clears scopes and scope_vars and
\* pushes the Global scope
AnalyzeBegin ==
  /\ pc = "lex"
  /\ lx.i > Len(src)
  /\ scopes' = <<GlobalScope>>
  /\ scope_vars' = <<EmptyVars>>
  /\ an' = AnalyzeStart
  /\ pc' = "analyze"
  /\ UNCHANGED <<argv, ai, exit_code, known_types, src, lx, toks, lines,
                 line_scope, li, outcpp, reads, outfiles, rc>>

\* the loop's variables as one iteration finds them
AnalyzeState ==
  [tk |-> toks, scopes |-> scopes, scope_vars |-> scope_vars, cur |-> an.cur,
   pending_kind |-> an.pending_kind, pending_name |-> an.pending_name,
   params |-> an.params, known_types |-> known_types,
   type_start |-> FALSE, sig_ok |-> FALSE, handled |-> FALSE]

AnalyzeCommit(st) ==
  /\ toks' = st.tk
  /\ scopes' = st.scopes
  /\ scope_vars' = st.scope_vars
  /\ known_types' = st.known_types
  /\ an' = [i |-> an.i + 1, cur |-> st.cur, pending_kind |-> st.pending_kind,
            pending_name |-> st.pending_name, params |-> st.params]

\* one iteration of the token loop of analyze_scopes_and_vars
AnalyzeStep ==
  /\ pc = "analyze"
  /\ an.i <= Len(toks)
  /\ AnalyzeCommit(AnalyzeToken(AnalyzeState, an.i))
  /\ UNCHANGED <<argv, pc, ai, exit_code, src, lx, lines, line_scope, li,
                 outcpp, reads, outfiles, rc>>

\* analyze_scopes_and_vars returns; remove_semicolons_inside_enums
RemoveEnumSemis ==
  /\ pc = "analyze"
  /\ an.i > Len(toks)
  /\ toks' = remove_semicolons_inside_enums(toks, scopes)
  /\ pc' = "typeblocks"
  /\ UNCHANGED <<argv, ai, exit_code, known_types, src, lx, an, scopes,
                 scope_vars, lines, line_scope, li, outcpp, reads, outfiles, rc>>

AddTypeSemis ==
  /\ pc = "typeblocks"
  /\ toks' = add_semicolon_after_type_blocks(toks, scopes)
  /\ pc' = "split"
  /\ UNCHANGED <<argv, ai, exit_code, known_types, src, lx, an, scopes,
                 scope_vars, lines, line_scope, li, outcpp, reads, outfiles, rc>>

SplitLines ==
  /\ pc = "split"
  /\ LET r == split_into_lines(toks) IN
       /\ lines' = r.byline
       /\ line_scope' = r.line_scope
       /\ pc' = IF r.byline = <<>> THEN "write" ELSE "rewrite"
  /\ li' = 1
  /\ UNCHANGED <<argv, ai, exit_code, known_types, src, lx, toks, an, scopes,
                 scope_vars, outcpp, reads, outfiles, rc>>

\* "sid" and "kind" of the line loop
LineSid == IF li <= Len(line_scope) THEN line_scope[li] ELSE 0

LineKind == IF LineSid < Len(scopes) THEN scopes[LineSid + 1].kind ELSE "Global"

RewriteLine ==
  /\ pc = "rewrite"
  /\ lines' = [lines EXCEPT
                 ![li] = rewrite_member_chains(@, LineSid, scopes, scope_vars)]
  /\ pc' = "insert"
  /\ UNCHANGED <<argv, ai, exit_code, known_types, src, lx, toks, an, scopes,
                 scope_vars, line_scope, li, outcpp, reads, outfiles, rc>>

InsertBeforeBrace ==
  /\ pc = "insert"
  /\ lines' = [lines EXCEPT
                 ![li] = insert_semicolon_before_closing_brace_on_line(@, LineKind)]
  /\ pc' = "terminate"
  /\ UNCHANGED <<argv, ai, exit_code, known_types, src, lx, toks, an, scopes,
                 scope_vars, line_scope, li, outcpp, reads, outfiles, rc>>

\* the appended ';', emit_line, and the step to the next line
TerminateLine ==
  /\ pc = "terminate"
  /\ LET line == IF needs_semicolon(lines[li], LineKind)
                 THEN Append(lines[li], LineSemi(lines[li]))
                 ELSE lines[li]
     IN /\ lines' = [lines EXCEPT ![li] = line]
        /\ outcpp' = outcpp \o emit_line(line)
  /\ li' = li + 1
  /\ pc' = IF li + 1 <= Len(lines) THEN "rewrite" ELSE "write"
  /\ UNCHANGED <<argv, ai, exit_code, known_types, src, lx, toks, an, scopes,
                 scope_vars, line_scope, reads, outfiles, rc>>

WriteFail ==
  /\ pc = "write"
  /\ ~argv[ai].writable
  /\ exit_code' = 1
  /\ ai' = ai + 1
  /\ pc' = "read"
  /\ FreshLocals
  /\ UNCHANGED <<argv, known_types, reads, outfiles, rc>>

WriteOk ==
  /\ pc = "write"
  /\ argv[ai].writable
  /\ outfiles' = [k \in DOMAIN outfiles \cup {ai} |->
                    IF k = ai THEN outcpp ELSE outfiles[k]]
  /\ ai' = ai + 1
  /\ pc' = "read"
  /\ FreshLocals
  /\ UNCHANGED <<argv, exit_code, known_types, reads, rc>>

Return ==
  /\ pc = "read"
  /\ ai > Len(argv)
  /\ rc' = exit_code
  /\ pc' = "exit"
  /\ UNCHANGED <<argv, ai, exit_code, known_types, perFile, reads, outfiles>>

Next ==
  \/ Usage
  \/ EnterLoop
  \/ ReadFail
  \/ ReadOk
  \/ LexStep
  \/ LexArrow
  \/ AnalyzeBegin
  \/ AnalyzeStep
  \/ RemoveEnumSemis
  \/ AddTypeSemis
  \/ SplitLines
  \/ RewriteLine
  \/ InsertBeforeBrace
  \/ TerminateLine
  \/ WriteFail
  \/ WriteOk
  \/ Return

(***************************************************************************)
(* Input texts                                                             *)
(***************************************************************************)
\* s repeated n times
RECURSIVE Rep(_, _)
Rep(s, n) == IF n = 0 THEN <<>> ELSE s \o Rep(s, n - 1)

\* the pieces of ps, one after the other
RECURSIVE Flat(_)
Flat(ps) == IF Len(ps) = 0 THEN <<>> ELSE ps[1] \o Flat(Tail(ps))

\* the pieces of ps joined, with gap g[k] between piece k and piece k+1
RECURSIVE Layout(_, _)
Layout(ps, g) ==
  IF Len(ps) = 1 THEN ps[1]
  ELSE ps[1] \o g[1] \o Layout(Tail(ps), Tail(g))

SP == <<" ">>

NL == <<"\n">>

\* every choice of a space or a line break for each of n gaps
Gaps(n) == [1..n -> {SP, NL}]

\* a typedef, and a pointer of that type: `typedef int T;\nT* p;\n`
SrcTypedefT ==
  <<"t", "y", "p", "e", "d", "e", "f", " ", "i", "n", "t", " ", "T", ";",
    "\n", "T", "*", " ", "p", ";", "\n">>

\* a function whose signature needs T to be a known type: `T f(T* q) {\nq.x = 1\n}\n`
SrcUsesT ==
  <<"T", " ", "f", "(", "T", "*", " ", "q", ")", " ", "{", "\n", "q", ".",
    "x", " ", "=", " ", "1", "\n", "}", "\n">>

\* a struct tag: `struct S* s;\ns.x = 1\n`
SrcTagS ==
  <<"s", "t", "r", "u", "c", "t", " ", "S", "*", " ", "s", ";", "\n", "s",
    ".", "x", " ", "=", " ", "1", "\n">>

\* a forbidden arrow in code: `a = 1\nb->c = 2\n`
SrcArrow ==
  <<"a", " ", "=", " ", "1", "\n", "b", "-", ">", "c", " ", "=", " ", "2",
    "\n">>

\* an arrow on a preprocessor line: `#define X a->b\nint y\n`
SrcArrowInDirective ==
  <<"#", "d", "e", "f", "i", "n", "e", " ", "X", " ", "a", "-", ">", "b",
    "\n", "i", "n", "t", " ", "y", "\n">>

\* arrows in a string and in comments only: `s = "a->b" // ->\n/* -> */\n`
SrcArrowQuoted ==
  <<"s", " ", "=", " ", "\"", "a", "-", ">", "b", "\"", " ", "/", "/", " ",
    "-", ">", "\n", "/", "*", " ", "-", ">", " ", "*", "/", "\n">>

\* `Vec2* p\np.x = 3\n`
SrcVec2P ==
  <<"V", "e", "c", "2", "*", " ", "p", "\n", "p", ".", "x", " ", "=", " ",
    "3", "\n">>

\* `Vec2** pp\npp.x = 3\n`
SrcVec2PP ==
  <<"V", "e", "c", "2", "*", "*", " ", "p", "p", "\n", "p", "p", ".", "x",
    " ", "=", " ", "3", "\n">>

\* `Vec2* buf[16]\nbuf[8].dx = 1\n`
SrcVec2Buf ==
  <<"V", "e", "c", "2", "*", " ", "b", "u", "f", "[", "1", "6", "]", "\n",
    "b", "u", "f", "[", "8", "]", ".", "d", "x", " ", "=", " ", "1", "\n">>

\* the same declaration, ';'-terminated: `Vec2* p;\np.x = 3\n`
SrcVec2PSemi ==
  <<"V", "e", "c", "2", "*", " ", "p", ";", "\n", "p", ".", "x", " ", "=",
    " ", "3", "\n">>

\* a pointer declared in one block, used in a sibling block: `{\nint* p;\n}\n{\np.x = 1\n}\n`
SrcSiblingBlocks ==
  <<"{", "\n", "i", "n", "t", "*", " ", "p", ";", "\n", "}", "\n", "{",
    "\n", "p", ".", "x", " ", "=", " ", "1", "\n", "}", "\n">>

\* a pointer of an enclosing scope: `int* p;\n{\np.x = q.y\n}\n`
SrcNestedBlock ==
  <<"i", "n", "t", "*", " ", "p", ";", "\n", "{", "\n", "p", ".", "x", " ",
    "=", " ", "q", ".", "y", "\n", "}", "\n">>

\* function parameters: `void f(int* a, T b) {\na.x = b.y\n}\n`
SrcParams ==
  <<"v", "o", "i", "d", " ", "f", "(", "i", "n", "t", "*", " ", "a", ",",
    " ", "T", " ", "b", ")", " ", "{", "\n", "a", ".", "x", " ", "=", " ",
    "b", ".", "y", "\n", "}", "\n">>

\* an initializer list on one line, terminated: `int a[] = { 1, 2 };\n`
SrcInitList ==
  <<"i", "n", "t", " ", "a", "[", "]", " ", "=", " ", "{", " ", "1", ",",
    " ", "2", " ", "}", ";", "\n">>

\* an initializer list on one line, line-terminated: `int a[] = { 1, 2 }\n`
SrcInitListOpen ==
  <<"i", "n", "t", " ", "a", "[", "]", " ", "=", " ", "{", " ", "1", ",",
    " ", "2", " ", "}", "\n">>

\* an enum on one line, terminated: `enum E { A, B };\n`
SrcEnumOneLine ==
  <<"e", "n", "u", "m", " ", "E", " ", "{", " ", "A", ",", " ", "B", " ",
    "}", ";", "\n">>

\* a struct on one line, terminated: `struct S { int x; int y; };\n`
SrcStructOneLine ==
  <<"s", "t", "r", "u", "c", "t", " ", "S", " ", "{", " ", "i", "n", "t",
    " ", "x", ";", " ", "i", "n", "t", " ", "y", ";", " ", "}", ";", "\n">>

\* statements that are all ';'-terminated: `struct S* p;\np.x = 1;\nif (p.y) {\nreturn 0;\n}\n`
SrcTerminated ==
  <<"s", "t", "r", "u", "c", "t", " ", "S", "*", " ", "p", ";", "\n", "p",
    ".", "x", " ", "=", " ", "1", ";", "\n", "i", "f", " ", "(", "p", ".",
    "y", ")", " ", "{", "\n", "r", "e", "t", "u", "r", "n", " ", "0", ";",
    "\n", "}", "\n">>

\* CR LF, a lone CR and a line continuation: `int a\r\nb = a \\\n+ 1\r`
SrcCrLf ==
  <<"i", "n", "t", " ", "a", "\r", "\n", "b", " ", "=", " ", "a", " ",
    "\\", "\n", "+", " ", "1", "\r">>

(***************************************************************************)
(* Bounds                                                                  *)
(***************************************************************************)
\* the longest command line
MaxFiles == 2

\* the most '*' of a declaration
MaxStars == 3

\* the most '[..]' of a declaration
MaxRank == 2

\* the most subscripts before a '.'
MaxSubs == 2

(***************************************************************************)
(* Families of input texts                                                 *)
(***************************************************************************)
\* `struct V` or `int`, p stars, ` buf`, a times `[16]`, `;`, then
\* `buf`, k times `[8]`, `.dx = 1`
DeclThenAccess(ty, p, a, k) ==
  ty \o Rep(<<"*">>, p) \o <<" ", "b", "u", "f">>
     \o Rep(<<"[", "1", "6", "]">>, a) \o <<";", "\n">>
     \o <<"b", "u", "f">> \o Rep(<<"[", "8", "]">>, k)
     \o <<".", "d", "x", " ", "=", " ", "1", "\n">>

TyStructV == <<"s", "t", "r", "u", "c", "t", " ", "V">>

TyInt == <<"i", "n", "t">>

AccessSources ==
  {DeclThenAccess(ty, p, a, k) :
     ty \in {TyStructV, TyInt}, p \in 0..MaxStars, a \in 0..MaxRank,
     k \in 0..MaxSubs}

\* what may follow the '}' of a type definition
BlockTails ==
  { <<>>, <<";">>, <<" ", "v", ";">>, <<" ", "*", "q", ";">>,
    <<"\n", "x", " ", "=", " ", "1">>, <<"\n", "i", "n", "t", " ", "y">>,
    <<"\n", "*", "q", " ", "=", " ", "1">>, <<"\n", "(", "f", ")", "(", ")">> }

\* `enum E { A, B }` under every placement of line breaks
EnumSources ==
  {Layout(<< <<"e", "n", "u", "m", " ", "E">>, <<"{">>, <<"A", ",">>, <<"B">>,
             <<"}">> >>, g) \o t \o NL :
     g \in Gaps(4), t \in BlockTails}

\* `struct S { int x; }` and `union S { int x }` under every placement of
\* line breaks
StructSources ==
  {Layout(<<h, <<"{">>, b, <<"}">> >>, g) \o t \o NL :
     h \in { <<"s", "t", "r", "u", "c", "t", " ", "S">>,
             <<"u", "n", "i", "o", "n", " ", "S">> },
     b \in { <<"i", "n", "t", " ", "x", ";">>, <<"i", "n", "t", " ", "x">> },
     g \in Gaps(3), t \in BlockTails}

(***************************************************************************)
(* The specifications                                                      *)
(***************************************************************************)
File(bytes, readable, writable) ==
  [bytes |-> bytes, readable |-> readable, writable |-> writable]

Good(bytes) == File(bytes, TRUE, TRUE)

\* a path read_file cannot open
Unreadable == File(<<>>, FALSE, TRUE)

\* command lines of up to n of the files fs
CommandLines(fs, n) == UNION {[1..m -> fs] : m \in 0..n}

\* the files of the multi-file runs
SomeFiles ==
  {Unreadable, File(SrcTypedefT, TRUE, FALSE)} \cup
  {Good(s) : s \in {SrcTypedefT, SrcUsesT, SrcTagS, SrcArrow,
                    SrcArrowInDirective, SrcArrowQuoted}}

\* one translation, or a command line that fails
OneOf(sources) ==
  {<<Good(s)>> : s \in sources} \cup
  {<<>>, <<Unreadable>>, <<File(SrcInitList, TRUE, FALSE)>>, <<Good(SrcArrow)>>}

Init == InitWith(CommandLines(SomeFiles, MaxFiles))

Spec == Init /\ [][Next]_vars

DeclSources ==
  AccessSources \cup
  {SrcVec2P, SrcVec2PP, SrcVec2Buf, SrcVec2PSemi, SrcSiblingBlocks,
   SrcNestedBlock, SrcParams, SrcTypedefT, SrcUsesT, SrcTagS, SrcCrLf}

InitDecl == InitWith(OneOf(DeclSources))

SpecDecl == InitDecl /\ [][Next]_vars

BlockSources ==
  EnumSources \cup StructSources \cup
  {SrcInitList, SrcInitListOpen, SrcEnumOneLine, SrcStructOneLine,
   SrcTerminated}

InitBlocks == InitWith(OneOf(BlockSources))

SpecBlocks == InitBlocks /\ [][Next]_vars

(***************************************************************************)
(* Properties                                                              *)
(***************************************************************************)
Texts(line) == [k \in 1..Len(line) |-> line[k].text]

RECURSIVE Flatten(_)
Flatten(ls) == IF ls = <<>> THEN <<>> ELSE Head(ls) \o Flatten(Tail(ls))

\* the tokens of the current file, at whatever pass the translation is
CurrentToks ==
  IF pc \in {"rewrite", "insert", "terminate", "write"} THEN Flatten(lines)
  ELSE toks

\* a '-' directly followed by '>' at or after position i that lies outside
\* every comment and string literal, no line being read as a directive
RECURSIVE ArrowFrom(_, _)
ArrowFrom(s, i) ==
  IF i + 1 > Len(s) THEN FALSE
  ELSE IF s[i] = "/" /\ s[i + 1] = "/" THEN ArrowFrom(s, SkipToEol(s, i + 2))
  ELSE IF s[i] = "/" /\ s[i + 1] = "*"
       THEN ArrowFrom(s, BlockCommentEnd(s, i + 2, 1, 1).i)
  ELSE IF s[i] = "\"" THEN ArrowFrom(s, StringEnd(s, i + 1, 1, 1).i)
  ELSE IF s[i] = "-" /\ s[i + 1] = ">" THEN TRUE
  ELSE ArrowFrom(s, i + 1)

\* C1: a file whose text holds "->" outside comments and string literals,
\* a line that starts with '#' included, is never taken past lexing: the
\* process ends with status 2, nothing is written for that file, and no
\* later file is read.
C1_ForbiddenArrow ==
  (src # <<>> /\ ArrowFrom(src, 1) /\ pc # "lex") =>
     /\ pc = "exit"
     /\ rc = 2
     /\ ai \notin DOMAIN outfiles
     /\ reads[Len(reads)] = ai

C2Cases ==
  { [src |-> SrcVec2P, name |-> "p", stars |-> 1, rank |-> 0],
    [src |-> SrcVec2PP, name |-> "pp", stars |-> 2, rank |-> 0],
    [src |-> SrcVec2Buf, name |-> "buf", stars |-> 1, rank |-> 1] }

\* C2: a pointer declaration of a type that is neither built in nor known,
\* ended by the line break alone (Vec2* p / Vec2** pp / Vec2* buf[16]), is
\* recorded with its stars and array rank, and the member access on the
\* next line is rewritten to an arrow.
C2_LineTerminatedPointerDecl ==
  \A c \in C2Cases :
    (pc = "write" /\ src = c.src) =>
       /\ c.name \in DOMAIN scope_vars[1]
       /\ scope_vars[1][c.name] =
             [pointer_level |-> c.stars, array_rank |-> c.rank]
       /\ \E k \in 1..Len(lines[2]) : lines[2][k].text = "->"

\* what the identifier at position k of the current line resolves to
RecordOf(k) == resolve_ptr_level(scopes, scope_vars, LineSid, lines[li][k].text)

\* the line about to be rewritten is  x . f ...  : one member access through
\* a base recorded with pointer level n >= 2 and array rank 0
SingleDeepAccess ==
  /\ pc = "rewrite"
  /\ Len(lines[li]) >= 3
  /\ lines[li][1].type = "Identifier"
  /\ is_p(lines[li], 2, ".")
  /\ lines[li][3].type = "Identifier"
  /\ ~(Len(lines[li]) >= 4 /\ is_p(lines[li], 4, "."))
  /\ RecordOf(1).ptr # UnknownPtr
  /\ RecordOf(1).ptr >= 2
  /\ RecordOf(1).array_rank = 0

\* x wrapped in n dereferences: ( * ( * x ) )
NestedDeref(n, x) == Rep(<<"(", "*">>, n) \o <<x>> \o Rep(<<")">>, n)

\* C3: a single access x.f through a base of pointer level n >= 2 and rank
\* 0 is rewritten with n-1 nested dereference wrappings and then "->".
C3_PointerDepthRule ==
  [][SingleDeepAccess =>
       Texts(lines'[li]) =
          NestedDeref(RecordOf(1).ptr - 1, lines[li][1].text)
             \o <<"->">> \o SubSeq(Texts(lines[li]), 3, Len(lines[li]))]_vars

\* the number of subscripts [ Number ] that directly follow the first token
SubCount(line) ==
  LET ks == {k \in 0..(Len(line) \div 3) :
               \A m \in 0..(k - 1) :
                  /\ 4 + 3 * m <= Len(line)
                  /\ is_p(line, 2 + 3 * m, "[")
                  /\ line[3 + 3 * m].type = "Number"
                  /\ is_p(line, 4 + 3 * m, "]")}
  IN CHOOSE k \in ks : \A h \in ks : h <= k

\* the position of the '.' of  b [..]..[..] . m
DotPos(line) == 2 + 3 * SubCount(line)

\* the line about to be rewritten is  b [..]..[..] . m ...  with b recorded
SubscriptedAccess ==
  /\ pc = "rewrite"
  /\ lines[li][1].type = "Identifier"
  /\ RecordOf(1).ptr # UnknownPtr
  /\ DotPos(lines[li]) + 1 <= Len(lines[li])
  /\ is_p(lines[li], DotPos(lines[li]), ".")
  /\ lines[li][DotPos(lines[li]) + 1].type = "Identifier"

Max0(x) == IF x > 0 THEN x ELSE 0

\* the pointer level left after k subscripts on a record (P, A): the
\* subscripts use up the array rank first
LevelLeft(P, A, k) == Max0(P - Max0(k - A))

\* C4: each subscript before a '.' consumes array rank first and pointer
\* level only when no rank is left; with the level that remains being 0
\* the access stays '.', being 1 the '.' alone becomes "->", and being 2
\* or more the member is reached through "->" behind a dereference.  So
\* (P=1, A=1) turns buf[8].dx into buf[8]->dx and (P=0, A=1) changes
\* nothing.
C4_ArrayElementRule ==
  [][SubscriptedAccess =>
       LET line == lines[li]
           d == DotPos(lines[li])
           left == LevelLeft(RecordOf(1).ptr, RecordOf(1).array_rank,
                             SubCount(lines[li]))
           out == Texts(lines'[li])
       IN IF left = 0 THEN SubSeq(out, 1, d + 1) = SubSeq(Texts(line), 1, d + 1)
          ELSE IF left = 1
               THEN SubSeq(out, 1, d + 1) =
                       SubSeq(Texts(line), 1, d - 1) \o <<"->", line[d + 1].text>>
               ELSE /\ out[1] = "("
                    /\ \E q \in 1..(Len(out) - 1) :
                          out[q] = "->" /\ out[q + 1] = line[d + 1].text]_vars

\* buf[8].dx has been rewritten to buf[8]->dx under the record (P=1, A=1)
C4_Witness ==
  /\ pc = "insert"
  /\ Len(lines[li]) >= 6
  /\ SubSeq(Texts(lines[li]), 1, 6) = <<"buf", "[", "8", "]", "->", "dx">>
  /\ RecordOf(1) = [ptr |-> 1, array_rank |-> 1]

\* the '{' at position i opens the body of an enum
EnumOpenAt(t, i) ==
  /\ is_p(t, i, "{")
  /\ \/ i > 1 /\ is_kw(t, i - 1, "enum")
     \/ i > 2 /\ is_kw(t, i - 2, "enum") /\ t[i - 1].type = "Identifier"

\* C5: when a file has been translated, no ';' stands between the '{' of
\* an enum and the '}' that closes it, wherever the line breaks of the
\* enum are.
C5_EnumPreservation ==
  pc = "write" =>
    \A i \in 1..Len(CurrentToks) :
      EnumOpenAt(CurrentToks, i) =>
        \A j \in (i + 1)..Len(CurrentToks) :
          is_p(CurrentToks, j, ";") =>
            \E m \in (i + 1)..(j - 1) : is_p(CurrentToks, m, "}")

\* the '}' at position i closes a struct, union or enum body
TypeClose(t, i) ==
  /\ is_p(t, i, "}")
  /\ ScopeKindOf(scopes, t[i].scope_id) \in {"Struct", "Union", "Enum"}

\* a declarator follows the '}' at position i: the next token stands on the
\* same source line and is an identifier, '*', '(' or '['
DeclaratorOnLine(t, i) ==
  /\ i + 1 <= Len(t)
  /\ t[i + 1].line = t[i].line
  /\ \/ t[i + 1].type = "Identifier"
     \/ t[i + 1].text \in {"*", "(", "["}

\* exactly one ';' directly after position i
OneSemiAfter(t, i) ==
  /\ i + 1 <= Len(t)
  /\ is_p(t, i + 1, ";")
  /\ ~(i + 2 <= Len(t) /\ is_p(t, i + 2, ";"))

\* C6: when a file has been translated, the '}' of every struct, union and
\* enum definition is directly followed by exactly one ';' if and only if
\* no declarator follows it; a token that begins the next statement on a
\* following line is not a declarator.
C6_TypeDefinitionTermination ==
  pc = "write" =>
    \A i \in 1..Len(CurrentToks) :
      TypeClose(CurrentToks, i) =>
        (OneSemiAfter(CurrentToks, i) <=> ~DeclaratorOnLine(CurrentToks, i))

\* scope sid and the scopes that enclose it
RECURSIVE Enclosing(_)
Enclosing(sid) ==
  IF sid = NoParent THEN {} ELSE {sid} \cup Enclosing(scopes[sid + 1].parent)

\* no identifier of the current line has a record in the line's scope or
\* in a scope that encloses it
NoIdentifierResolves ==
  \A k \in 1..Len(lines[li]) :
    lines[li][k].type = "Identifier" =>
      \A s \in Enclosing(LineSid) : lines[li][k].text \notin DOMAIN scope_vars[s + 1]

\* C7: the rewriter changes nothing on a line none of whose identifiers
\* resolves to a recorded declaration in the line's scope chain.
C7_ScopeInsensitiveSafety ==
  [][(pc = "rewrite" /\ NoIdentifierResolves) => lines'[li] = lines[li]]_vars

\* the rewriter has passed a line with a member access whose base is
\* recorded, but only in a scope outside the line's scope chain
C7_Witness ==
  /\ pc = "insert"
  /\ NoIdentifierResolves
  /\ \E k \in 1..(Len(lines[li]) - 1) :
        /\ lines[li][k].type = "Identifier"
        /\ is_p(lines[li], k + 1, ".")
        /\ \E s \in 1..Len(scope_vars) : lines[li][k].text \in DOMAIN scope_vars[s]

\* inputs whose statements all end with ';' and whose type definitions all
\* end with "};"
TerminatedSources ==
  {SrcInitList, SrcEnumOneLine, SrcStructOneLine, SrcTerminated} \cup
  {Layout(<< <<"e", "n", "u", "m", " ", "E">>, <<"{">>, <<"A", ",">>, <<"B">>,
             <<"}">> >>, g) \o <<";">> \o NL : g \in Gaps(4)} \cup
  {Layout(<< <<"s", "t", "r", "u", "c", "t", " ", "S">>, <<"{">>,
             <<"i", "n", "t", " ", "x", ";">>, <<"}">> >>, g) \o <<";">> \o NL :
     g \in Gaps(3)}

\* the token texts with the rewriter's own changes taken out: "->" read
\* as '.', and the tokens a dereference wrapper is made of left aside
SourceTexts(t) ==
  SelectSeq([k \in 1..Len(t) |-> IF t[k].text = "->" THEN "." ELSE t[k].text],
            LAMBDA x : x \notin {"(", "*", ")"})

\* C8: on an input that is already terminated, no pass adds or removes a
\* token: the emitted tokens are the lexed ones, but for '.' made "->" and
\* dereference wrappers.
C8_RoundTripNearIdentity ==
  [][(/\ pc \in {"analyze", "typeblocks", "split", "rewrite", "insert",
                 "terminate"}
      /\ src \in TerminatedSources)
       => SourceTexts(CurrentToks') = SourceTexts(CurrentToks)]_vars

\* the arguments main cannot translate
Failing == {k \in 1..Len(argv) : ~argv[k].readable \/ ~argv[k].writable}

\* C9: when no file holds a forbidden arrow, every argument is attempted,
\* in order; a file that can be read and written is written whatever
\* happened to the others; and the status is 1 exactly when some read or
\* write failed, 0 otherwise.  Without arguments the status is 1 and
\* nothing is read or written.
C9_AggregateExitCode ==
  (pc = "exit" /\ rc # 2) =>
     /\ reads = [k \in 1..Len(argv) |-> k]
     /\ DOMAIN outfiles = (1..Len(argv)) \ Failing
     /\ rc = IF Failing # {} \/ Len(argv) = 0 THEN 1 ELSE 0

\* the first file could not be read, the second was translated and written
C9_Witness ==
  /\ pc = "exit"
  /\ rc = 1
  /\ Len(argv) = 2
  /\ ~argv[1].readable
  /\ 2 \in DOMAIN outfiles
  /\ reads = <<1, 2>>

\* the names the current file introduces: the identifier after a tag
\* keyword, and the identifier before the ';' that ends a braceless typedef
TagNames(t) ==
  {t[k + 1].text : k \in {h \in 1..(Len(t) - 1) :
                            IsTagKw(t, h) /\ t[h + 1].type = "Identifier"}}

TypedefNames(t) ==
  {t[e - 1].text : e \in {h \in 2..Len(t) :
     /\ is_p(t, h, ";")
     /\ t[h - 1].type = "Identifier"
     /\ \E k \in 1..(h - 2) :
           /\ is_kw(t, k, "typedef")
           /\ \A m \in (k + 1)..(h - 1) : ~is_p(t, m, ";") /\ ~is_p(t, m, "{")}}

\* every record of the current file is of a name the file holds
RecordsAreOfThisFile ==
  \A s \in 1..Len(scope_vars) :
    \A n \in DOMAIN scope_vars[s] : \E k \in 1..Len(toks) : toks[k].text = n

\* C10: the known-type set always holds the built-in types and never loses
\* an element, from one file to the next and whether or not a file could
\* be written; after a file's analysis it holds the file's tag and typedef
\* names; the scope tree and the variable records start afresh at each
\* file and hold nothing of an earlier file.
C10_KnownTypesAcrossFiles ==
  /\ [](builtin_types \subseteq known_types)
  /\ [][known_types \subseteq known_types']_vars
  /\ []((pc = "typeblocks") =>
          TagNames(toks) \cup TypedefNames(toks) \subseteq known_types)
  /\ []((pc = "analyze" /\ an.i = 1) =>
          scopes = <<GlobalScope>> /\ scope_vars = <<EmptyVars>>)
  /\ [](pc \in {"analyze", "typeblocks"} => RecordsAreOfThisFile)

\* the second file's function is recognised through the typedef of the
\* first file, which could not be written, and holds no record of it
C10_Witness ==
  /\ pc = "write"
  /\ ai = 2
  /\ argv[1].bytes = SrcTypedefT
  /\ ~argv[1].writable
  /\ argv[2].bytes = SrcUsesT
  /\ "T" \in known_types
  /\ Len(scopes) = 2
  /\ scopes[2].kind = "Function"
  /\ "q" \in DOMAIN scope_vars[2]
  /\ \A s \in 1..Len(scope_vars) : "p" \notin DOMAIN scope_vars[s]

(***************************************************************************)
(* The line normalizer on every short byte string                          *)
(***************************************************************************)
\* the longest byte string given to the normalizer
MaxBytes == 4

\* the bytes the normalizer tells apart, and one it does not
NormBytes == {"\\", "\r", "\n", "a"}

NormSources == UNION {[1..n -> NormBytes] : n \in 0..MaxBytes}

InitNorm == InitWith(OneOf(NormSources))

SpecNorm == InitNorm /\ [][Next]_vars

\* C11: the text the normalizer returns holds no '\r' and no backslash
\* directly followed by '\n', and normalizing it again changes nothing;
\* this for every byte string, runs of backslashes before a line break
\* included.
C11_NormalizerContract ==
  (pc = "lex" /\ lx.i = 1) =>
     /\ \A k \in 1..Len(src) : src[k] # "\r"
     /\ \A k \in 1..(Len(src) - 1) : ~(src[k] = "\\" /\ src[k + 1] = "\n")
     /\ preprocess_physical_lines(src) = src

(***************************************************************************)
(* Input texts for scopes, typedefs and access chains                      *)
(***************************************************************************)
\* a tag-typed variable, then a bare block: `enum Color c;\n{\nx = 1\n}\n`
SrcEnumVarThenBlock ==
  <<"e", "n", "u", "m", " ", "C", "o", "l", "o", "r", " ", "c", ";", "\n",
    "{", "\n", "x", " ", "=", " ", "1", "\n", "}", "\n">>

\* a tag-typed variable, then an if with a body: `struct S s;\nif (a) {\nb = 1\n}\n`
SrcStructVarThenIf ==
  <<"s", "t", "r", "u", "c", "t", " ", "S", " ", "s", ";", "\n", "i", "f",
    " ", "(", "a", ")", " ", "{", "\n", "b", " ", "=", " ", "1", "\n", "}",
    "\n">>

\* a struct definition, then a bare block: `struct S {\nint x\n}\n{\ny = 1\n}\n`
SrcStructThenBlock ==
  <<"s", "t", "r", "u", "c", "t", " ", "S", " ", "{", "\n", "i", "n", "t",
    " ", "x", "\n", "}", "\n", "{", "\n", "y", " ", "=", " ", "1", "\n",
    "}", "\n">>

\* a typedef of a braced type: `typedef struct { int x; } Vec2;\nVec2* p;\n`
SrcTypedefStruct ==
  <<"t", "y", "p", "e", "d", "e", "f", " ", "s", "t", "r", "u", "c", "t",
    " ", "{", " ", "i", "n", "t", " ", "x", ";", " ", "}", " ", "V", "e",
    "c", "2", ";", "\n", "V", "e", "c", "2", "*", " ", "p", ";", "\n">>

\* a typedef ended by the line break alone: `typedef int T\nT* p\n`
SrcTypedefOpen ==
  <<"t", "y", "p", "e", "d", "e", "f", " ", "i", "n", "t", " ", "T", "\n",
    "T", "*", " ", "p", "\n">>

\* a member named as a recorded pointer: `int* m;\na.m.f = 1\n`
SrcMemberNamedAsPointer ==
  <<"i", "n", "t", "*", " ", "m", ";", "\n", "a", ".", "m", ".", "f", " ",
    "=", " ", "1", "\n">>

\* the same, the pointer being of the enclosing scope: `int* m;\n{\na.m.f = 1\n}\n`
SrcMemberNamedAsPointerInBlock ==
  <<"i", "n", "t", "*", " ", "m", ";", "\n", "{", "\n", "a", ".", "m", ".",
    "f", " ", "=", " ", "1", "\n", "}", "\n">>
\* the deepest sequence of braces and statements
MaxBraces == 4

\* the longest chain of member accesses
MaxChain == 3

\* every sequence of up to MaxBraces lines, each a '{', a '}' or a statement
BraceSources ==
  UNION {{Flat(f) : f \in [1..n -> {<<"{", "\n">>, <<"}", "\n">>, <<"a", "\n">>}]} :
           n \in 0..MaxBraces}

\* parameter lists of a function
ParamLists ==
  { <<>>,
    <<"i", "n", "t", "*", " ", "p">>,
    <<"s", "t", "r", "u", "c", "t", " ", "T", "*", " ", "p">>,
    <<"u", "n", "i", "o", "n", " ", "T", "*", " ", "p">>,
    <<"e", "n", "u", "m", " ", "T", " ", "p">>,
    <<"i", "n", "t", " ", "n", ",", " ", "s", "t", "r", "u", "c", "t", " ", "T",
      "*", " ", "p">>,
    <<"s", "t", "r", "u", "c", "t", " ", "T", "*", " ", "p", ",", " ", "i", "n",
      "t", "*", " ", "q">> }

\* `int f(<params>) {`, `p.x = 1`, `}`
FunctionSources ==
  {<<"i", "n", "t", " ", "f", "(">> \o ps
     \o <<")", " ", "{", "\n", "p", ".", "x", " ", "=", " ", "1", "\n", "}", "\n">> :
   ps \in ParamLists}

\* `int` with p stars ` p;`, then `p`, k times `[0]`, and a chain of m
\* members `.a`, ` = 1`
ChainSources ==
  {TyInt \o Rep(<<"*">>, p) \o <<" ", "p", ";", "\n", "p">>
     \o Rep(<<"[", "0", "]">>, k) \o Rep(<<".", "a">>, m)
     \o <<" ", "=", " ", "1", "\n">> :
   p \in 1..MaxStars, k \in 0..1, m \in 1..MaxChain}

TyVec2 == <<"V", "e", "c", "2">>

TyT == <<"T">>

\* `TY* v;` in the outer scope, `TY v;` and `v.x = 1` in a block; TY is
\* built in, unknown, or (after `typedef int T;`) known
ShadowOf(pre, ty) ==
  pre \o ty \o <<"*", " ", "v", ";", "\n", "{", "\n">> \o ty
      \o <<" ", "v", ";", "\n", "v", ".", "x", " ", "=", " ", "1", "\n", "}", "\n">>

ShadowSources ==
  {ShadowOf(<<>>, TyInt), ShadowOf(<<>>, TyVec2),
   ShadowOf(<<"t", "y", "p", "e", "d", "e", "f", " ", "i", "n", "t", " ", "T",
              ";", "\n">>, TyT)}

ScopeSources ==
  BraceSources \cup FunctionSources \cup ChainSources \cup ShadowSources \cup
  {SrcEnumVarThenBlock, SrcStructVarThenIf, SrcStructThenBlock,
   SrcTypedefStruct, SrcTypedefOpen, SrcTypedefT, SrcMemberNamedAsPointer,
   SrcMemberNamedAsPointerInBlock, SrcSiblingBlocks, SrcNestedBlock}

InitScopes == InitWith(OneOf(ScopeSources))

SpecScopes == InitScopes /\ [][Next]_vars

(***************************************************************************)
(* Properties of scopes, typedefs and access chains                        *)
(***************************************************************************)
\* analyze_scopes_and_vars has passed the last token
AnalysisDone == pc = "analyze" /\ an.i > Len(toks)

\* the id of the scope that the '{' at position b opens: scopes are made
\* one per '{', in order
ScopeOpenedAt(t, b) == Cardinality({k \in 1..b : is_p(t, k, "{")})

\* the positions at which a built-in type begins a matched function
\* signature with a body
SignaturesOf(t) ==
  {i \in 1..Len(t) :
     /\ t[i].type = "Keyword"
     /\ t[i].text \in builtin_types
     /\ looks_like_func_signature(t, i).ok
     /\ looks_like_func_signature(t, i).i_lbrace # -1}

\* the signature that begins at position i opens a scope of kind Function,
\* named as the function, with a record for each recognised parameter
OpensFunctionScope(t, sig) ==
  LET s == ScopeOpenedAt(t, sig.i_lbrace) IN
  /\ s < Len(scopes)
  /\ scopes[s + 1].kind = "Function"
  /\ scopes[s + 1].name = t[sig.i_name].text
  /\ LET ps == parse_params(t, sig.i_lp, sig.i_rp, known_types) IN
     \A k \in 1..Len(ps) : ps[k].name \in DOMAIN scope_vars[s + 1]

\* C12: when a file has been analysed, the scope made at the '{' of every
\* matched function signature has kind Function, the function's name, and
\* a record for each recognised parameter, parameters of a 'struct T',
\* 'union T' or 'enum T' type included.
C12_FunctionScopes ==
  AnalysisDone =>
    \A i \in SignaturesOf(toks) :
      OpensFunctionScope(toks, looks_like_func_signature(toks, i))

TagKinds == {"Struct", "Union", "Enum"}

\* the last tag keyword before position b heads a statement that a ';'
\* ended before any '{' was opened
StaleTag(t, b) ==
  \E h \in 1..(b - 1) :
    /\ IsTagKw(t, h)
    /\ \A m \in (h + 1)..(b - 1) : ~IsTagKw(t, m)
    /\ \E s \in (h + 1)..(b - 1) :
          /\ is_p(t, s, ";")
          /\ \A m \in (h + 1)..(s - 1) : ~is_p(t, m, "{")

\* C13: when a file has been analysed, a '{' that comes after a
\* struct/union/enum head already ended by ';' has not opened a scope of
\* kind Struct, Union or Enum: the pending pair of the head was discarded
\* at the ';'.
C13_PendingScopeDiscard ==
  AnalysisDone =>
    \A b \in 1..Len(toks) :
      (is_p(toks, b, "{") /\ StaleTag(toks, b)) =>
         scopes[ScopeOpenedAt(toks, b) + 1].kind \notin TagKinds

\* as many '{' as '}' among the tokens a..b
Balanced(t, a, b) ==
  Cardinality({k \in a..b : is_p(t, k, "{")}) =
  Cardinality({k \in a..b : is_p(t, k, "}")})

\* the position that ends the typedef statement begun at i: its own ';',
\* or the first token of the next line when the line has none; braced
\* bodies belong to the statement
TypedefEnd(t, i) ==
  LET E == {s \in (i + 1)..(Len(t) + 1) :
              /\ Balanced(t, i + 1, s - 1)
              /\ \/ s = Len(t) + 1
                 \/ is_p(t, s, ";")
                 \/ t[s].line > t[s - 1].line}
  IN CHOOSE s \in E : \A e \in E : s <= e

\* the identifier the typedef at i declares, as a set (empty: none)
TypedefDeclares(t, i) ==
  LET ids == {k \in (i + 1)..(TypedefEnd(t, i) - 1) : t[k].type = "Identifier"}
  IN {t[m].text : m \in {k \in ids : \A j \in ids : j <= k}}

AtTypedef == pc = "analyze" /\ an.i <= Len(toks) /\ is_kw(toks, an.i, "typedef")

\* C14: analysing a typedef keyword adds to the known types the identifier
\* the statement declares, the last one before the statement's own end,
\* and nothing else, also when the aliased type has a braced body and when
\* the line has no trailing ';'.
C14_TypedefObservation ==
  [][AtTypedef => known_types' = known_types \cup TypedefDeclares(toks, an.i)]_vars

\* the line about to be rewritten is  b [..]..[..] . m . n ...  : a chain
\* of two or more member accesses on a recorded base whose pointer level
\* left at the first '.' is 1
ChainOnSinglePointer ==
  /\ SubscriptedAccess
  /\ LevelLeft(RecordOf(1).ptr, RecordOf(1).array_rank, SubCount(lines[li])) = 1
  /\ DotPos(lines[li]) + 3 <= Len(lines[li])
  /\ is_p(lines[li], DotPos(lines[li]) + 2, ".")
  /\ lines[li][DotPos(lines[li]) + 3].type = "Identifier"

\* C15: in a chain p.a.b... on a base whose effective pointer depth at the
\* first dot is 1, the rewriter turns the first '.' into "->" and leaves
\* every later '.' of the chain, and the rest of the line, as it was.
C15_ChainedAccessOnSinglePointer ==
  [][ChainOnSinglePointer =>
       Texts(lines'[li]) =
          [Texts(lines[li]) EXCEPT ![DotPos(lines[li])] = "->"]]_vars

(***************************************************************************)
(* Lines to terminate                                                      *)
(***************************************************************************)
\* how a line begins: nothing, `x = `, `if (a) `, `while `,
\* `int a[] = { 1, `, `#define X `
LineHeads ==
  { <<>>,
    <<"x", " ", "=", " ">>,
    <<"i", "f", " ", "(", "a", ")", " ">>,
    <<"w", "h", "i", "l", "e", " ">>,
    <<"i", "n", "t", " ", "a", "[", "]", " ", "=", " ", "{", " ", "1", ",", " ">>,
    <<"#", "d", "e", "f", "i", "n", "e", " ", "X", " ">> }

\* how a line ends: `y`, `1`, `"s"`, `f(a)`, `b[1]`, `{`, `}`, `2 }`, `y;`,
\* `+`, `,`
LineLasts ==
  { <<"y">>, <<"1">>, <<"\"", "s", "\"">>, <<"f", "(", "a", ")">>,
    <<"b", "[", "1", "]">>, <<"{">>, <<"}">>, <<"2", " ", "}">>, <<"y", ";">>,
    <<"+">>, <<",">> }

\* what encloses the line: nothing, a bare block, a function body, an enum
\* body, a struct body
LineWrappers ==
  { <<>>,
    <<"{", "\n">>,
    <<"i", "n", "t", " ", "f", "(", ")", " ", "{", "\n">>,
    <<"e", "n", "u", "m", " ", "E", " ", "{", "\n">>,
    <<"s", "t", "r", "u", "c", "t", " ", "S", " ", "{", "\n">> }

LineSources ==
  {w \o h \o l \o NL \o (IF w = <<>> THEN <<>> ELSE <<"}", "\n">>) :
     w \in LineWrappers, h \in LineHeads, l \in LineLasts}

InitLines == InitWith(OneOf(LineSources))

SpecLines == InitLines /\ [][Next]_vars

LastIs(line, p) == is_p(line, Len(line), p)

HasCtrl(line) ==
  \E i \in 1..Len(line) :
    line[i].type = "Keyword" /\ line[i].text \in {"if", "for", "while", "switch"}

HasInitializer(line) ==
  /\ \E i \in 1..(Len(line) - 1) : is_op(line, i, "=")
  /\ \E i \in 1..(Len(line) - 1) : is_p(line, i, "{")

\* the conditions on a line and its scope kind that do not name the kinds
\* of last token that call for a ';'
TerminableLine(line, kind) ==
  /\ line # <<>>
  /\ kind # "Enum"
  /\ line[1].type # "Preprocessor"
  /\ ~LastIs(line, "{")
  /\ ~LastIs(line, ";")
  /\ LastIs(line, "}") => HasInitializer(line)
  /\ HasCtrl(line) => ~LastIs(line, ")")

LastIsValue(line) ==
  \/ line[Len(line)].type \in {"Identifier", "Number", "StringLit"}
  \/ LastIs(line, ")")
  \/ LastIs(line, "]")

\* main's step at the current line has appended a ';' to it
SemiAppended ==
  /\ Len(lines'[li]) = Len(lines[li]) + 1
  /\ SubSeq(lines'[li], 1, Len(lines[li])) = lines[li]
  /\ is_p(lines'[li], Len(lines'[li]), ";")

\* C16 as stated: a ';' is appended to a line if and only if the line is
\* non-empty, its scope kind is not Enum, its first token is not a
\* directive, its last token is not '{' or ';', a last token '}' comes with
\* a '=' and a '{' earlier, a line with if/for/while/switch does not end in
\* ')', and its last token is an Identifier, Number, StringLit, ')' or ']'.
C16_LineTermination_AsStated ==
  [][pc = "terminate" =>
       (SemiAppended <=>
          (TerminableLine(lines[li], LineKind) /\ LastIsValue(lines[li])))]_vars

\* C16: a ';' is appended to a line if and only if the line is non-empty,
\* its scope kind is not Enum, its first token is not a directive, its last
\* token is not '{' or ';', a last token '}' comes with a '=' and a '{'
\* earlier, a line with if/for/while/switch does not end in ')', and its
\* last token is an Identifier, Number, StringLit, ')', ']' or '}'.
C16_LineTermination ==
  [][pc = "terminate" =>
       (SemiAppended <=>
          (/\ TerminableLine(lines[li], LineKind)
           /\ LastIsValue(lines[li]) \/ LastIs(lines[li], "}")))]_vars

\* a line that ended in the '}' of an initializer list has been given its
\* ';': the file holds no ';' of its own
C16_Witness ==
  /\ pc \in {"rewrite", "write"}
  /\ li > 1
  /\ \A k \in 1..Len(src) : src[k] # ";"
  /\ Len(lines[li - 1]) >= 2
  /\ LastIs(lines[li - 1], ";")
  /\ is_p(lines[li - 1], Len(lines[li - 1]) - 1, "}")
  /\ HasInitializer(lines[li - 1])

\* the current scope when the loop of analyze_scopes_and_vars reaches
\* token k: the id the token was given, or cur for the token not yet met
CurAt(k) == IF k < an.i THEN toks[k].scope_id ELSE an.cur

\* the scope tree over the tokens analysed so far
ScopeTree ==
  pc = "analyze" =>
    /\ \A k \in 1..(an.i - 1) : toks[k].scope_id \in 0..(Len(scopes) - 1)
    /\ an.cur \in 0..(Len(scopes) - 1)
    /\ scopes[1].id = 0
    /\ scopes[1].kind = "Global"
    /\ scopes[1].parent = NoParent
    /\ \A s \in 1..(Len(scopes) - 1) :
          /\ scopes[s + 1].id = s
          /\ scopes[s + 1].parent \in 0..(s - 1)
    /\ Len(scopes) = 1 + Cardinality({k \in 1..(an.i - 1) : is_p(toks, k, "{")})
    /\ Len(scope_vars) = Len(scopes)
    /\ \A k \in 1..(an.i - 1) :
          is_p(toks, k, "{") =>
             /\ CurAt(k + 1) = ScopeOpenedAt(toks, k)
             /\ scopes[ScopeOpenedAt(toks, k) + 1].parent = toks[k].scope_id

\* a '}' met at the root leaves the current scope at the root
RootCloseStays ==
  (pc = "analyze" /\ an.i <= Len(toks) /\ an.cur = 0 /\ is_p(toks, an.i, "}"))
     => an'.cur = 0

\* C17: while and after any token sequence is analysed, unbalanced braces
\* included, every token's scope id indexes an existing scope; scope 0 is
\* the Global scope and the only one without a parent; every other scope's
\* parent id is smaller than its own id; there is one scope per '{' beside
\* the Global one, with ids in the order of the opening braces; and a '}'
\* met while the current scope is the root leaves it at the root.
C17_ScopeTreeInvariant == []ScopeTree /\ [][RootCloseStays]_vars

\* the analysis is over for a file in which a '}' was met at the root and a
\* '{' after it opened a scope
C17_Witness ==
  /\ AnalysisDone
  /\ \E k \in 1..Len(toks) :
        /\ is_p(toks, k, "}")
        /\ toks[k].scope_id = 0
        /\ \E m \in (k + 1)..Len(toks) :
              /\ is_p(toks, m, "{")
              /\ scopes[ScopeOpenedAt(toks, m) + 1].parent = 0

\* the tokens hold a statement `TY name ;` at the start of a line of scope
\* sid, TY being one keyword or identifier: a plain object of that name
PlainDeclIn(t, sid, name) ==
  \E k \in 1..(Len(t) - 2) :
    /\ t[k].type \in {"Keyword", "Identifier"}
    /\ t[k].scope_id = sid
    /\ k = 1 \/ t[k - 1].line < t[k].line
    /\ t[k + 1].type = "Identifier"
    /\ t[k + 1].text = name
    /\ is_p(t, k + 2, ";")

\* a scope that encloses scope sid holds a pointer record of the name
OuterPointer(sid, name) ==
  \E s \in Enclosing(scopes[sid + 1].parent) :
    /\ name \in DOMAIN scope_vars[s + 1]
    /\ scope_vars[s + 1][name].pointer_level >= 1

\* the line about to be rewritten is  v . x ...  in an inner scope that
\* declares v a plain object, an outer scope holding v as a pointer
ShadowedAccess ==
  /\ pc = "rewrite"
  /\ Len(lines[li]) >= 3
  /\ lines[li][1].type = "Identifier"
  /\ is_p(lines[li], 2, ".")
  /\ lines[li][3].type = "Identifier"
  /\ LineSid # 0
  /\ PlainDeclIn(toks, LineSid, lines[li][1].text)
  /\ OuterPointer(LineSid, lines[li][1].text)

\* C18: a dot access v.x on a line of an inner scope that re-declares v as
\* a plain object, v being a pointer in an outer scope, resolves to the
\* inner declaration and is left as it is.
C18_InnermostDeclarationWins ==
  [][ShadowedAccess => Texts(lines'[li]) = Texts(lines[li])]_vars

\* the line is a one-line initializer  ... = { ... }  in a scope that
\* holds statements: one '{' right after a '=', one '}' as the last token,
\* a value before it, and no ';'
OneLineInitializer(line, kind) ==
  /\ kind \in {"Global", "Function", "Block"}
  /\ Len(line) >= 4
  /\ LastIs(line, "}")
  /\ line[Len(line) - 1].type \in {"Identifier", "Number"}
  /\ Cardinality({k \in 1..Len(line) : is_p(line, k, "{")}) = 1
  /\ Cardinality({k \in 1..Len(line) : is_p(line, k, "}")}) = 1
  /\ \E k \in 1..(Len(line) - 3) : is_op(line, k, "=") /\ is_p(line, k + 1, "{")
  /\ \A k \in 1..Len(line) : ~is_p(line, k, ";")

\* C19: for a one-line initializer in Global, Function or Block scope the
\* semicolon inserter puts no ';' between the '{' and the '}' of the list,
\* and the line gets exactly one ';', after the closing '}'.
C19_InitializerListsStayIntact ==
  [][/\ (pc = "insert" /\ OneLineInitializer(lines[li], LineKind))
          => lines'[li] = lines[li]
     /\ (pc = "terminate" /\ OneLineInitializer(lines[li], LineKind))
          => SemiAppended]_vars

\* the line about to be rewritten begins  a . m . f  with a resolving to
\* no record, m being recorded as a pointer where the line can see it
MemberNamedAsPointer ==
  /\ pc = "rewrite"
  /\ Len(lines[li]) >= 5
  /\ lines[li][1].type = "Identifier"
  /\ is_p(lines[li], 2, ".")
  /\ lines[li][3].type = "Identifier"
  /\ is_p(lines[li], 4, ".")
  /\ lines[li][5].type = "Identifier"
  /\ RecordOf(1).ptr = UnknownPtr
  /\ RecordOf(1).array_rank = 0
  /\ RecordOf(3).ptr # UnknownPtr
  /\ RecordOf(3).ptr >= 1

\* C20: in a chain a.m.f whose leftmost identifier resolves to no record,
\* no '.' of the chain is rewritten, even when the member name m is the
\* name of a pointer variable recorded in an enclosing scope.
C20_MemberNamesAreNotBases ==
  [][MemberNamedAsPointer =>
       SubSeq(Texts(lines'[li]), 1, 5) = SubSeq(Texts(lines[li]), 1, 5)]_vars

=============================================================================
